---- MODULE Spec2Model ----
(***************************************************************************)
(* Apillon go-sdk: the request executor of package requests (doRequest,    *)
(* reached through GetReq / PostReq / DeleteReq) and the upload            *)
(* orchestration of package storage (UploadFileProcess with                *)
(* StartUploadFilesToBucket, UploadFiles and EndSession).                  *)
(*                                                                         *)
(* One call of one exported operation is modelled from its entry to its    *)
(* return.  The caller's arguments and the context are drawn in Init; the  *)
(* remote ends (API server, signed-URL storage) and the cancellation of    *)
(* the context are the environment and are drawn in the actions.           *)
(***************************************************************************)
EXTENDS Integers, Sequences, FiniteSets, TLC

(* ------------------------------------------------------------------ *)
(* Program constants                                                   *)
(* ------------------------------------------------------------------ *)
maxRetries == 3
retryDelay == 1
urlReadyDelay == 2
ErrCodeInvalidInput == 40000001
\* Timeouts of the http.Client, in seconds; 0, the zero value of
\* http.Client.Timeout, means no timeout.
timeoutGet == 30
timeoutPost == 60
UploadFilesTimeout == 0
ErrCodeDirectoryNotFound == 40406003
ErrCodeDirectoryDeleting == 40006007

(* ------------------------------------------------------------------ *)
(* Bounds of the model                                                 *)
(* ------------------------------------------------------------------ *)
MaxFiles == 3
MaxKeyLog == 6

(* ------------------------------------------------------------------ *)
(* Values                                                              *)
(* ------------------------------------------------------------------ *)
\* Keys given to SetAPIKey and values of the environment variable
\* APILLON_API_KEY; "" is the empty key and the unset variable.
Keys == {"", "k1", "k2"}
EnvValues == {"", "e1", "e2"}

\* The credential state an operation is called in: any of the four cases
\* of key set or not and variable set or not for the plain requests, both
\* set for the operations of package storage.
Credentials(o) ==
    IF o \in {"UploadFileProcess", "DeleteDirectory"} THEN {<<"k1", "e1">>}
    ELSE {"", "k1"} \X {"", "e1"}

DirectOps == {"GetReq", "PostReq", "DeleteReq"}
Ops == DirectOps \cup {"UploadFileProcess", "DeleteDirectory"}

\* A path segment that url.Parse rejects (an invalid percent escape).
BadSegment == "%zz"

BucketIds == {"", "b1", BadSegment}
SessionIds == {"", "s1", "s2"}
DirectoryIds == {"", "d1"}
FileNames == {"", "a.txt"}
Contents == {"", "data"}
ContentTypes == {"", "image/png"}
defaultContentType == "text/plain"

\* WholeFile{Metadata: FileMetadata{FileName, ContentType}, Content}; the
\* files of one call are given the same content type ct.
WholeFiles(ct) == [FileName : FileNames, ContentType : {ct}, Content : Contents]

RECURSIVE SeqsUpTo(_, _)
SeqsUpTo(S, n) ==
    IF n = 0 THEN {<<>>}
    ELSE LET shorter == SeqsUpTo(S, n - 1)
         IN  shorter \cup {Append(s, x) : s \in {t \in shorter : Len(t) = n - 1}, x \in S}

(* ---- errors ------------------------------------------------------- *)
\* An error value is a record with a kind k; wrapping errors carry the
\* wrapped error in Err.  NoErr is Go's nil error.
NoErr == [k |-> "nil"]
CtxErr == [k |-> "context canceled"]
\* What client.Do gives when no response arrives: the connection is
\* refused, or the client's Timeout passes.
ConnRefused == [k |-> "connection refused"]
TimedOut == [k |-> "Client.Timeout exceeded"]
ConnErrs == {ConnRefused, TimedOut}
BuildURLErr == [k |-> "invalid base URL"]
ReadBodyErr == [k |-> "failed to read response body"]
ExhaustedErr(n, cause) == [k |-> "request failed after attempts", n |-> n, Err |-> cause]
HTTPErr(code, body) == [k |-> "HTTP error", code |-> code, body |-> body]
APIError(status, message) == [k |-> "APIError", Status |-> status, Message |-> message]
StorageError(code, message, err) ==
    [k |-> "StorageError", Code |-> code, Message |-> message, Err |-> err]
Errorf(prefix, err) == [k |-> "wrapped", prefix |-> prefix, Err |-> err]

\* The (string, error) pair every operation returns.
Ret(payload, err) == [payload |-> payload, err |-> err]
NoPayload == [t |-> "empty"]
NoResult == Ret(NoPayload, [k |-> "running"])


(* ---- response bodies ---------------------------------------------- *)
\* A response body is either text that is not JSON, or a JSON object of
\* which the members "status", "message" and "data" are modelled.  Each
\* member records its JSON type, so that decoding into a Go struct can
\* succeed with zero values or fail on a type mismatch.
StatusAbsent == [ty |-> "absent", v |-> 0]
StatusInt(n) == [ty |-> "number", v |-> n]
StatusStr == [ty |-> "string", v |-> 0]
MessageAbsent == [ty |-> "absent", s |-> ""]
MessageStr(s) == [ty |-> "string", s |-> s]

EmptyURL == [host |-> "", n |-> 0]
SignedURL(j) == [host |-> "storage", n |-> j]
BadURL(j) == [host |-> BadSegment, n |-> j]
URLKinds == {"empty", "signed", "bad"}
MkURL(kind, j) ==
    CASE kind = "empty" -> EmptyURL
      [] kind = "signed" -> SignedURL(j)
      [] OTHER -> BadURL(j)

\* The "files" array of a session-start response with L entries: entry j
\* carries no url, a well-formed signed url, or one url.Parse rejects.
EntriesOfLen(L) == {[j \in 1..L |-> [url |-> MkURL(ks[j], j)]] : ks \in [1..L -> URLKinds]}
EntriesUpTo(L) == UNION {EntriesOfLen(l) : l \in 0..L}

DataAbsent == [ty |-> "absent", sessionUuid |-> "", files |-> <<>>]
DataStr == [ty |-> "string", sessionUuid |-> "", files |-> <<>>]
DataObj(sid, fs) == [ty |-> "object", sessionUuid |-> sid, files |-> fs]

RawBody == [t |-> "raw"]
JSONObj(s, m, d) == [t |-> "object", status |-> s, message |-> m, data |-> d]

BodyStatuses ==
    {StatusAbsent, StatusInt(404), StatusInt(ErrCodeDirectoryNotFound),
     StatusInt(ErrCodeDirectoryDeleting), StatusStr}
BodyMessages == {MessageAbsent, MessageStr("x")}
EnvelopeBodies == {JSONObj(s, m, DataAbsent) : s \in BodyStatuses, m \in BodyMessages}
ProcessBodies(L) ==
    {JSONObj(StatusAbsent, MessageAbsent, DataObj(sid, fs)) :
        sid \in SessionIds, fs \in EntriesUpTo(L)}
        \cup {JSONObj(StatusAbsent, MessageAbsent, DataStr)}

\* The bodies the API server may answer with; L bounds the "files" array.
Bodies(L) == {RawBody} \cup EnvelopeBodies \cup ProcessBodies(L)

HTTPStatuses == {200, 399, 400, 404, 500}

\* The responses the API server may give: any body with a status below
\* 400; with an error status, the bodies without a "files" array and one
\* with it.
Responses(L) ==
    {[status |-> st, body |-> b, readOK |-> TRUE] :
        st \in {x \in HTTPStatuses : x < 400}, b \in Bodies(L)}
    \cup {[status |-> st, body |-> b, readOK |-> TRUE] :
        st \in {x \in HTTPStatuses : x >= 400}, b \in Bodies(0)}
\* The responses to DeleteDirectory's request: of the body, the members
\* "status" and "message" are modelled.
DeleteResponses ==
    {[status |-> st, body |-> b, readOK |-> TRUE] :
        st \in HTTPStatuses, b \in {RawBody} \cup EnvelopeBodies}
PutStatuses == {101, 200, 299, 300, 500}

(* ---- paths -------------------------------------------------------- *)
\* A path is the tuple of the strings the code concatenates.
DirectPaths == {<<"/storage/buckets">>, <<"/storage/buckets/", BadSegment>>}
StartPath(bucket) == <<"/storage/buckets/", bucket, "/upload">>
EndSessionPath(bucket, sessionId) ==
    <<"/storage/buckets/", bucket, "/upload/", sessionId, "/end">>
DeletePath(bucket, directory) ==
    <<"/storage/buckets/", bucket, "/directories/", directory>>

\* buildURL: url.Parse(baseURL + path) fails on an invalid escape.
buildURLFails(p) == \E i \in 1..Len(p) : p[i] = BadSegment

\* http.NewRequestWithContext(ctx, PUT, signedURL, ...) fails when the
\* signed URL does not parse.
NewRequestFails(u) == u.host = BadSegment

(* ------------------------------------------------------------------ *)
(* package requests: doRequest                                         *)
(* ------------------------------------------------------------------ *)

\* json.Unmarshal(responseBody, &apiErr) with
\* APIError{Status int `json:"status"`; Message string `json:"message"`}:
\* fails on text that is not JSON and on a member of the wrong JSON type;
\* a missing member leaves the field's zero value.
UnmarshalAPIError(body) ==
    IF body.t # "object" \/ body.status.ty = "string"
    THEN [err |-> TRUE, Status |-> 0, Message |-> ""]
    ELSE [err |-> FALSE,
          Status |-> IF body.status.ty = "number" THEN body.status.v ELSE 0,
          Message |-> body.message.s]

\* Mutant: the ApplicationError carries the HTTP status, not the envelope's.
ClassifyHTTPStatus(status, body) ==
    IF status >= 400
    THEN LET d == UnmarshalAPIError(body)
         IN  IF d.err THEN Ret(NoPayload, HTTPErr(status, body))
             ELSE Ret(NoPayload, APIError(status, d.Message))
    ELSE Ret(body, NoErr)

\* The classification of a response whose body was read (lines 107-115).
Classify(status, body) ==
    IF status >= 400
    THEN LET d == UnmarshalAPIError(body)
         IN  IF d.err THEN Ret(NoPayload, HTTPErr(status, body))
             ELSE Ret(NoPayload, APIError(d.Status, d.Message))
    ELSE Ret(body, NoErr)

\* Mutant: a decodable error response is treated like a transport failure.
RetryableResponseOnAPIError(status, body) ==
    status >= 400 /\ ~UnmarshalAPIError(body).err

\* Mutant: an error response whose body does not decode is treated like a
\* transport failure and retried.
RetryableResponseOnHTTPError(status, body) ==
    status >= 400 /\ UnmarshalAPIError(body).err

\* Whether a response that was received sends the loop round again.  The
\* code returns from inside the loop for every response (lines 102-115).
RetryableResponse(status, body) == FALSE

\* Mutant: one attempt too many.
LoopContinuesOffByOne(a) == a <= maxRetries

\* The loop condition, attempt < maxRetries (line 78).
LoopContinues(a) == a < maxRetries

\* The return after the loop (line 118).
Exhausted(last) == Ret(NoPayload, ExhaustedErr(maxRetries, last))

\* lastErr = err (line 95).
NextLastErr(last, err) == err

\* time.Sleep(retryDelay * time.Duration(attempt+1)) (line 96).
BackoffDelay(a) == retryDelay * (a + 1)

MethodOf(o) ==
    CASE o = "GetReq" -> "GET"
      [] o \in {"DeleteReq", "DeleteDirectory"} -> "DELETE"
      [] OTHER -> "POST"

\* The Timeout of the http.Client whose Do runs at position p of
\* operation o: doRequest's client has the timeout its caller passed
\* (lines 89-91, 131, 145, 159), UploadFiles' client is &http.Client{}.
ClientTimeout(p, o) ==
    IF p = "upload" THEN UploadFilesTimeout
    ELSE IF MethodOf(o) = "POST" THEN timeoutPost
    ELSE timeoutGet

(* ------------------------------------------------------------------ *)
(* package storage: the upload orchestration                           *)
(* ------------------------------------------------------------------ *)

\* Mutant: the content of a file is not checked.
ValidateUploadFileProcessNoContent(bucket, fs) ==
    IF bucket = ""
    THEN StorageError(ErrCodeInvalidInput, "bucket UUID cannot be empty", NoErr)
    ELSE IF Len(fs) = 0
    THEN StorageError(ErrCodeInvalidInput, "no files provided for upload", NoErr)
    ELSE IF \E i \in 1..Len(fs) : fs[i].FileName = ""
    THEN StorageError(ErrCodeInvalidInput, "file content or metadata is empty", NoErr)
    ELSE NoErr

\* The checks UploadFileProcess makes before its first call (lines 153-177).
ValidateUploadFileProcess(bucket, fs) ==
    IF bucket = ""
    THEN StorageError(ErrCodeInvalidInput, "bucket UUID cannot be empty", NoErr)
    ELSE IF Len(fs) = 0
    THEN StorageError(ErrCodeInvalidInput, "no files provided for upload", NoErr)
    ELSE IF \E i \in 1..Len(fs) : fs[i].Content = "" \/ fs[i].FileName = ""
    THEN StorageError(ErrCodeInvalidInput, "file content or metadata is empty", NoErr)
    ELSE NoErr

\* onlyMetadata[i] = file.Metadata (lines 168-177).
OnlyMetadata(fs) ==
    [i \in 1..Len(fs) |-> [FileName |-> fs[i].FileName, ContentType |-> fs[i].ContentType]]

\* The checks StartUploadFilesToBucket makes itself (lines 26-51).
ValidateStartUpload(bucket, metas) ==
    IF bucket = ""
    THEN StorageError(ErrCodeInvalidInput, "bucket UUID cannot be empty", NoErr)
    ELSE IF Len(metas) = 0
    THEN StorageError(ErrCodeInvalidInput, "no files provided for upload", NoErr)
    ELSE IF \E i \in 1..Len(metas) : metas[i].FileName = ""
    THEN StorageError(ErrCodeInvalidInput, "file has no name", NoErr)
    ELSE NoErr

\* The request body of the session-start call: the metadata, an empty
\* content type replaced by the default (lines 41-54).
StartUploadBody(metas) ==
    [i \in 1..Len(metas) |->
        [FileName |-> metas[i].FileName,
         ContentType |-> IF metas[i].ContentType = "" THEN defaultContentType
                         ELSE metas[i].ContentType]]
NoBody == <<>>

\* StartUploadFilesToBucket's return for the result r of PostReq (lines 64-73).
StartUploadReturn(r) ==
    IF r.err # NoErr
    THEN Ret(NoPayload, StorageError(500, "failed to start upload session", r.err))
    ELSE r

\* EndSession's return for the result r of PostReq (lines 135-144).
EndSessionReturn(r) ==
    IF r.err # NoErr
    THEN Ret(NoPayload, StorageError(500, "failed to end upload session", r.err))
    ELSE r

\* json.Unmarshal([]byte(res), &apiResp): Data.SessionUUID and
\* Data.Files[].URL of ProcessAPIResponse.
UnmarshalProcessAPIResponse(body) ==
    IF body.t # "object" \/ body.data.ty = "string"
    THEN [err |-> TRUE, SessionUUID |-> "", Files |-> <<>>]
    ELSE [err |-> FALSE, SessionUUID |-> body.data.sessionUuid, Files |-> body.data.files]
ZeroProcessAPIResponse == [err |-> FALSE, SessionUUID |-> "", Files |-> <<>>]

\* The signed URLs taken from the response: the non-empty ones, in order
\* (lines 195-202).
RECURSIVE ExtractURLs(_)
ExtractURLs(entries) ==
    IF Len(entries) = 0 THEN <<>>
    ELSE IF entries[1].url # EmptyURL
         THEN <<entries[1].url>> \o ExtractURLs(Tail(entries))
         ELSE ExtractURLs(Tail(entries))

\* Mutant: only the absence of any URL is an error.
URLCountErrorOnlyZero(us, n) ==
    IF Len(us) = 0
    THEN StorageError(500, "no signed URLs found in process upload response", NoErr)
    ELSE NoErr

\* Mutant: one URL too few passes the second check.
URLCountErrorOffByOne(us, n) ==
    IF Len(us) = 0
    THEN StorageError(500, "no signed URLs found in process upload response", NoErr)
    ELSE IF Len(us) + 1 < n
    THEN StorageError(500, "not enough signed URLs provided", NoErr)
    ELSE NoErr

\* The two checks of the number of signed URLs (lines 204-216).
URLCountError(us, n) ==
    IF Len(us) = 0
    THEN StorageError(500, "no signed URLs found in process upload response", NoErr)
    ELSE IF Len(us) < n
    THEN StorageError(500, "not enough signed URLs provided", NoErr)
    ELSE NoErr

\* What UploadFileProcess does with the result r of
\* StartUploadFilesToBucket, n files having been given (lines 180-219):
\* the next position, the value returned if it returns here, the decoded
\* response and the signed URLs.
AfterStart(r, n) ==
    IF r.err # NoErr
    THEN [pc |-> "failed", apiResp |-> ZeroProcessAPIResponse, urls |-> <<>>,
          result |-> Ret(NoPayload, Errorf("failed to start upload session", r.err))]
    ELSE LET resp == UnmarshalProcessAPIResponse(r.payload)
             us == ExtractURLs(resp.Files)
             cnt == URLCountError(us, n)
         IN  IF resp.err
             THEN [pc |-> "failed", apiResp |-> ZeroProcessAPIResponse, urls |-> <<>>,
                   result |-> Ret(NoPayload,
                       StorageError(500, "failed to unmarshal process upload response",
                                    [k |-> "json"]))]
             ELSE IF cnt # NoErr
             THEN [pc |-> "failed", apiResp |-> resp, urls |-> us,
                   result |-> Ret(NoPayload, cnt)]
             ELSE [pc |-> "settle", apiResp |-> resp, urls |-> us, result |-> NoResult]

\* Whether UploadFiles reaches client.Do for this URL and content
\* (lines 79-100): both non-empty and the request could be built.
UploadFilesSends(signedURL, rawFile) ==
    signedURL # EmptyURL /\ rawFile # "" /\ ~NewRequestFails(signedURL)

\* UploadFiles' error for what client.Do gave, o = [err, status]
\* (lines 78-122).
UploadFiles(signedURL, rawFile, o) ==
    IF signedURL = EmptyURL
    THEN StorageError(ErrCodeInvalidInput, "signed URL cannot be empty", NoErr)
    ELSE IF rawFile = ""
    THEN StorageError(ErrCodeInvalidInput, "file content cannot be empty", NoErr)
    ELSE IF NewRequestFails(signedURL)
    THEN StorageError(500, "failed to create upload request", [k |-> "parse"])
    ELSE IF o.err # NoErr
    THEN StorageError(500, "failed to upload file", o.err)
    ELSE IF o.status < 200 \/ o.status >= 300
    THEN StorageError(o.status, "upload failed", NoErr)
    ELSE NoErr

\* The signed URL file i is written to: urls[i] (line 223).
UploadTarget(us, i) == us[i]

\* Mutant: the session is ended once the last file is reached, before it
\* is uploaded.
UploadLoopNextEndsEarly(err, i, n) ==
    IF err # NoErr THEN "failed"
    ELSE IF i + 1 < n THEN "upload"
    ELSE "end"

\* Mutant: a failed upload does not stop the loop.
UploadLoopNextContinues(err, i, n) ==
    IF i < n THEN "upload" ELSE "end"

\* Where the loop over the files goes after UploadFiles returned err for
\* file i of n (lines 222-229).
UploadLoopNext(err, i, n) ==
    IF err # NoErr THEN "failed"
    ELSE IF i < n THEN "upload"
    ELSE "end"

\* Mutant: the session is ended under the bucket's id.
EndSessionIdBucket(bucket, resp) == bucket

\* The session id EndSession is called with (line 229).
EndSessionId(bucket, resp) == resp.SessionUUID

\* EndSession's own check (lines 127-132).
ValidateEndSession(bucket, sessionId) ==
    IF bucket = "" \/ sessionId = ""
    THEN StorageError(ErrCodeInvalidInput, "bucket UUID and session ID cannot be empty", NoErr)
    ELSE NoErr

\* What UploadFileProcess does with EndSession's result (lines 229-234).
AfterEnd(r) ==
    IF r.err # NoErr
    THEN [pc |-> "failed",
          result |-> Ret(NoPayload, Errorf("failed to end upload session", r.err))]
    ELSE [pc |-> "complete", result |-> r]

NoResp == [status |-> 0, body |-> NoPayload, readOK |-> FALSE]

(* ------------------------------------------------------------------ *)
(* package storage: DeleteDirectory                                    *)
(* ------------------------------------------------------------------ *)

\* DeleteDirectory's check of its arguments (lines 307-312).
ValidateDeleteDirectory(bucket, directory) ==
    IF bucket = "" \/ directory = ""
    THEN StorageError(ErrCodeInvalidInput,
                      "bucket UUID and directory UUID cannot be empty", NoErr)
    ELSE NoErr

\* json.Unmarshal([]byte(res), &resp) (lines 324-331): the field Status of
\* DeleteDirectoryResponse, a number the code compares with the error
\* codes.
UnmarshalDeleteDirectoryResponse(body) ==
    IF body.t # "object" \/ body.status.ty = "string"
    THEN [err |-> TRUE, Status |-> 0]
    ELSE [err |-> FALSE,
          Status |-> IF body.status.ty = "number" THEN body.status.v ELSE 0]

\* What DeleteDirectory does with the result r of DeleteReq
\* (lines 315-346).
AfterDelete(r) ==
    IF r.err # NoErr
    THEN [pc |-> "failed",
          result |-> Ret(NoPayload, StorageError(500, "failed to delete directory", r.err))]
    ELSE LET resp == UnmarshalDeleteDirectoryResponse(r.payload)
         IN  IF resp.err
             THEN [pc |-> "failed",
                   result |-> Ret(NoPayload,
                       StorageError(500, "failed to unmarshal delete directory response",
                                    [k |-> "json"]))]
             ELSE IF resp.Status = ErrCodeDirectoryNotFound
             THEN [pc |-> "failed",
                   result |-> Ret(r.payload,
                       StorageError(ErrCodeDirectoryNotFound,
                                    "directory does not exist", NoErr))]
             ELSE IF resp.Status = ErrCodeDirectoryDeleting
             THEN [pc |-> "failed",
                   result |-> Ret(r.payload,
                       StorageError(ErrCodeDirectoryDeleting,
                                    "directory is already marked for deletion", NoErr))]
             ELSE [pc |-> "complete", result |-> r]

(* ------------------------------------------------------------------ *)
(* State                                                               *)
(* ------------------------------------------------------------------ *)
VARIABLES
    op,           \* the exported operation that was called
    bucketUuid,   \* UploadFileProcess, DeleteDirectory: argument bucketUuid
    directoryUuid, \* DeleteDirectory: argument directoryUuid
    files,        \* UploadFileProcess: argument files
    ctxDone,      \* ctx.Done() is closed
    cancelledIn,  \* the position at which ctx was cancelled, or "none"
    cancelAt,     \* attempts of the current doRequest made when ctx was cancelled
    pc,           \* position of the operation
    phase,        \* whose doRequest runs: "direct", "start", "end", "delete" or "none"
    path,         \* doRequest: argument path
    attempt,      \* doRequest: loop variable attempt
    lastErr,      \* doRequest: lastErr
    bodyReader,   \* doRequest: argument body, the unread part of the reader
    reqLog,       \* the body each client.Do of the current doRequest sent, and what it gave
    slept,        \* the delays the current doRequest has slept
    reqResult,    \* what the current doRequest returned
    apiResp,      \* UploadFileProcess: apiResp
    urls,         \* UploadFileProcess: urls
    idx,          \* UploadFileProcess: index (from 1) of the file being uploaded
    netLog,       \* every client.Do of the operation, in order
    uploadCalls,  \* the calls of UploadFiles, in order: file index and success
    result,       \* what the operation returned
    apiKey,       \* package requests: var apiKey
    env,          \* the process environment's APILLON_API_KEY ("" when unset)
    keyLog        \* the calls of SetAPIKey, os.Setenv and getAPIKey, in order

inputVars == <<op, bucketUuid, directoryUuid, files>>
ctxVars == <<ctxDone, cancelledIn, cancelAt>>
reqVars == <<path, attempt, lastErr, bodyReader, reqLog, slept, reqResult>>
upVars == <<apiResp, urls, idx>>
vars == <<op, bucketUuid, directoryUuid, files, ctxDone, cancelledIn, cancelAt, pc, phase, path,
          attempt, lastErr, bodyReader, reqLog, slept, reqResult, apiResp, urls, idx,
          netLog, uploadCalls,
          result, apiKey, env, keyLog>>
keyVars == <<apiKey, env, keyLog>>

\* Mutant: the environment variable takes precedence over the key set.
getAPIKeyEnvFirst == IF env # "" THEN env ELSE apiKey

\* getAPIKey (lines 45-50): the key set by SetAPIKey when it is not empty,
\* else os.Getenv("APILLON_API_KEY"), read at every call.
getAPIKey == IF apiKey # "" THEN apiKey ELSE env

\* Mutant: only the first attempt of a doRequest is authenticated.
AuthorizationFirstAttemptOnly(a) ==
    IF a = 0 THEN <<"Basic ", getAPIKey>> ELSE <<>>

\* req.Header.Set("Authorization", "Basic "+getAPIKey()) in iteration a of
\* doRequest's loop (line 84); <<>> stands for a request without the header.
Authorization(a) == <<"Basic ", getAPIKey>>

\* UploadFiles sets no header on the request it builds (lines 93-103).
UploadFilesAuthorization == <<>>

Init ==
    /\ op \in Ops
    /\ CASE op = "UploadFileProcess" ->
              /\ bucketUuid \in BucketIds
              /\ directoryUuid = ""
              /\ \E ct \in ContentTypes : files \in SeqsUpTo(WholeFiles(ct), MaxFiles)
              /\ path = <<>>
         [] op = "DeleteDirectory" ->
              /\ bucketUuid \in BucketIds
              /\ directoryUuid \in DirectoryIds
              /\ files = <<>>
              /\ path = <<>>
         [] OTHER ->
              /\ bucketUuid = ""
              /\ directoryUuid = ""
              /\ files = <<>>
              /\ path \in DirectPaths
    /\ ctxDone \in BOOLEAN
    /\ cancelledIn = IF ctxDone THEN "entry" ELSE "none"
    /\ cancelAt = -1
    /\ pc = "call"
    /\ phase = "none"
    /\ attempt = 0
    /\ lastErr = NoErr
    /\ bodyReader = NoBody
    /\ reqLog = <<>>
    /\ slept = <<>>
    /\ reqResult = NoResult
    /\ apiResp = ZeroProcessAPIResponse
    /\ urls = <<>>
    /\ idx = 0
    /\ netLog = <<>>
    /\ uploadCalls = <<>>
    /\ result = NoResult
    /\ \E c \in Credentials(op) : apiKey = c[1] /\ env = c[2]
    /\ keyLog = <<>>

(* ------------------------------------------------------------------ *)
(* Actions                                                             *)
(* ------------------------------------------------------------------ *)

\* The operation returns res without having entered doRequest.
ReturnEarly(res) ==
    /\ pc' = IF res.err = NoErr THEN "complete" ELSE "failed"
    /\ result' = res
    /\ UNCHANGED <<phase, reqVars, upVars>>

\* doRequest, called for phase ph, returns r: its caller runs on to the
\* next blocking point or to its own return.
Deliver(ph, r) ==
    /\ reqResult' = r
    /\ CASE ph = "start" ->
              LET o == AfterStart(StartUploadReturn(r), Len(files))
              IN  /\ pc' = o.pc
                  /\ result' = o.result
                  /\ apiResp' = o.apiResp
                  /\ urls' = o.urls
                  /\ idx' = idx
         [] ph = "end" ->
              LET o == AfterEnd(EndSessionReturn(r))
              IN  /\ pc' = o.pc
                  /\ result' = o.result
                  /\ UNCHANGED upVars
         [] ph = "delete" ->
              LET o == AfterDelete(r)
              IN  /\ pc' = o.pc
                  /\ result' = o.result
                  /\ UNCHANGED upVars
         [] OTHER ->
              /\ pc' = IF r.err = NoErr THEN "complete" ELSE "failed"
              /\ result' = r
              /\ UNCHANGED upVars

\* The body doRequest is called with for phase ph: StartUploadFilesToBucket
\* passes strings.NewReader(string(bodyBytes)) (line 64), EndSession and
\* the other callers pass nil.
BodyArgument(ph) ==
    IF ph = "start" THEN StartUploadBody(OnlyMetadata(files)) ELSE NoBody

\* How much of the n unread units of the body the transport read from the
\* reader before client.Do returned outcome o: nothing when the connection
\* was refused or ctx was done before the call; everything when a response
\* came or the call timed out waiting for one; nothing, the first unit or
\* everything when ctx was cancelled while the call was in flight.
BodyReads(o, n) ==
    IF o.kind = "response" \/ o.err = TimedOut THEN {n}
    ELSE IF o.err = ConnRefused \/ ctxDone THEN {0}
    ELSE {0, n} \cup (IF n > 1 THEN {1} ELSE {})

\* The reader after k units were read from it.
AdvanceReader(reader, k) == SubSeq(reader, k + 1, Len(reader))

\* doRequest is entered for phase ph with path p (lines 71-77).
EnterRequest(ph, p) ==
    /\ phase' = ph
    /\ path' = p
    /\ attempt' = 0
    /\ lastErr' = NoErr
    /\ bodyReader' = BodyArgument(ph)
    /\ reqLog' = <<>>
    /\ slept' = <<>>
    /\ IF buildURLFails(p)
       THEN Deliver(ph, Ret(NoPayload, BuildURLErr))
       ELSE /\ pc' = "attempt"
            /\ reqResult' = NoResult
            /\ UNCHANGED <<result, upVars>>

\* GetReq / PostReq / DeleteReq / DeleteDirectory / UploadFileProcess is
\* called and runs to its first client.Do or to its return.
Call ==
    /\ pc = "call"
    /\ UNCHANGED <<inputVars, ctxVars, netLog, uploadCalls, keyVars>>
    /\ IF op \in DirectOps
       THEN EnterRequest("direct", path)
       ELSE IF op = "DeleteDirectory"
       THEN LET e == ValidateDeleteDirectory(bucketUuid, directoryUuid)
            IN  IF e # NoErr
                THEN ReturnEarly(Ret(NoPayload, e))
                ELSE EnterRequest("delete", DeletePath(bucketUuid, directoryUuid))
       ELSE LET e1 == ValidateUploadFileProcess(bucketUuid, files)
                e2 == ValidateStartUpload(bucketUuid, OnlyMetadata(files))
            IN  IF e1 # NoErr
                THEN ReturnEarly(Ret(NoPayload, e1))
                ELSE IF e2 # NoErr
                THEN ReturnEarly(Ret(NoPayload,
                         Errorf("failed to start upload session", e2)))
                ELSE EnterRequest("start", StartPath(bucketUuid))

\* What client.Do can give in doRequest: with ctx done, ctx's error; else
\* a connectivity failure, a cancellation while the call is in flight, or
\* a response (whose body may fail to be read).
AttemptOutcomes ==
    IF ctxDone
    THEN {[kind |-> "ctx", err |-> CtxErr, r |-> NoResp]}
    ELSE {[kind |-> "ctx", err |-> CtxErr, r |-> NoResp]}
         \cup {[kind |-> "conn", err |-> e, r |-> NoResp] : e \in ConnErrs}
         \cup {[kind |-> "response", err |-> NoErr,
                r |-> [status |-> 200, body |-> RawBody, readOK |-> FALSE]]}
         \cup {[kind |-> "response", err |-> NoErr, r |-> r] :
                 r \in IF phase = "delete" THEN DeleteResponses
                       ELSE Responses(IF phase = "start" THEN Len(files) + 1 ELSE 1)}

\* The body of the request an iteration builds with
\* http.NewRequestWithContext(ctx, method, url, body) (line 79): what is
\* left unread in the reader all iterations share.
RequestBody == bodyReader

\* One iteration of doRequest's loop up to its sleep or return
\* (lines 79-115).
Attempt ==
    /\ pc = "attempt"
    /\ \E o \in AttemptOutcomes :
         LET r == IF o.r.readOK THEN Classify(o.r.status, o.r.body)
                  ELSE Ret(NoPayload, ReadBodyErr)
             again == o.kind = "response" /\ o.r.readOK
                      /\ RetryableResponse(o.r.status, o.r.body)
         IN  /\ reqLog' = Append(reqLog,
                    [kind |-> o.kind, err |-> o.err, r |-> o.r, body |-> RequestBody])
             /\ netLog' = Append(netLog,
                    [kind |-> "api", what |-> phase, method |-> MethodOf(op),
                     path |-> path, url |-> EmptyURL,
                     file |-> 0, content |-> "", resp |-> o.r,
                     auth |-> Authorization(attempt),
                     ok |-> (o.kind = "response" /\ r.err = NoErr)])
             /\ \E k \in BodyReads(o, Len(bodyReader)) :
                    bodyReader' = AdvanceReader(bodyReader, k)
             /\ ctxDone' = (ctxDone \/ o.kind = "ctx")
             /\ cancelledIn' = IF ~ctxDone /\ o.kind = "ctx" THEN "attempt" ELSE cancelledIn
             /\ IF o.kind = "response" /\ ~again
                THEN /\ Deliver(phase, r)
                     /\ UNCHANGED lastErr
                ELSE /\ lastErr' = NextLastErr(lastErr,
                                        IF o.kind = "response" THEN r.err ELSE o.err)
                     /\ pc' = "backoff"
                     /\ UNCHANGED <<result, upVars, reqResult>>
    /\ UNCHANGED <<inputVars, cancelAt, phase, path, attempt, slept, uploadCalls,
                   keyVars>>

\* The caller's context is cancelled while the operation sleeps.
Cancel ==
    /\ pc \in {"backoff", "settle"}
    /\ ~ctxDone
    /\ ctxDone' = TRUE
    /\ cancelledIn' = pc
    /\ cancelAt' = IF pc = "backoff" THEN Len(reqLog) ELSE cancelAt
    /\ UNCHANGED <<inputVars, pc, phase, reqVars, upVars, netLog, uploadCalls, result,
                   keyVars>>

\* time.Sleep returns, the loop variable is incremented and the loop
\* condition is tested (lines 96-97, 78, 118).
Backoff ==
    /\ pc = "backoff"
    /\ slept' = Append(slept, BackoffDelay(attempt))
    /\ attempt' = attempt + 1
    /\ IF LoopContinues(attempt + 1)
       THEN /\ pc' = "attempt"
            /\ UNCHANGED <<result, upVars, reqResult>>
       ELSE Deliver(phase, Exhausted(lastErr))
    /\ UNCHANGED <<inputVars, ctxVars, phase, path, lastErr, bodyReader, reqLog, netLog,
                   uploadCalls, keyVars>>

\* time.Sleep(urlReadyDelay) returns (line 219).
Settle ==
    /\ pc = "settle"
    /\ pc' = "upload"
    /\ idx' = 1
    /\ UNCHANGED <<inputVars, ctxVars, phase, reqVars, apiResp, urls, netLog,
                   uploadCalls, result, keyVars>>

\* What client.Do can give in UploadFiles.
PutOutcomes ==
    IF ctxDone
    THEN {[err |-> CtxErr, status |-> 0]}
    ELSE {[err |-> CtxErr, status |-> 0]}
         \cup {[err |-> e, status |-> 0] : e \in ConnErrs}
         \cup {[err |-> NoErr, status |-> st] : st \in PutStatuses}

\* One iteration of the loop over the files: UploadFiles for file idx,
\* and, after the last file, EndSession up to its first client.Do
\* (lines 222-232, 126-135).
Upload ==
    /\ pc = "upload"
    /\ LET u == UploadTarget(urls, idx)
           c == files[idx].Content
           sends == UploadFilesSends(u, c)
       IN  \E o \in IF sends THEN PutOutcomes ELSE {[err |-> NoErr, status |-> 0]} :
             LET err == UploadFiles(u, c, o)
                 nxt == UploadLoopNext(err, idx, Len(files))
                 sid == EndSessionId(bucketUuid, apiResp)
                 e == ValidateEndSession(bucketUuid, sid)
             IN  /\ uploadCalls' = Append(uploadCalls, [file |-> idx, ok |-> (err = NoErr)])
                 /\ netLog' = IF sends
                              THEN Append(netLog,
                                     [kind |-> "signed", what |-> "put", method |-> "PUT",
                                      path |-> <<>>, url |-> u,
                                      file |-> idx, content |-> c, resp |-> NoResp,
                                      auth |-> UploadFilesAuthorization,
                                      ok |-> (err = NoErr)])
                              ELSE netLog
                 /\ ctxDone' = (ctxDone \/ (sends /\ o.err = CtxErr))
                 /\ cancelledIn' = IF ~ctxDone /\ sends /\ o.err = CtxErr
                                   THEN "upload" ELSE cancelledIn
                 /\ CASE nxt = "failed" ->
                           /\ pc' = "failed"
                           /\ result' = Ret(NoPayload, Errorf("failed to upload file", err))
                           /\ UNCHANGED <<phase, reqVars, upVars>>
                      [] nxt = "upload" ->
                           /\ pc' = "upload"
                           /\ idx' = idx + 1
                           /\ UNCHANGED <<phase, reqVars, apiResp, urls, result>>
                      [] OTHER ->
                           IF e # NoErr
                           THEN /\ pc' = "failed"
                                /\ result' = Ret(NoPayload,
                                       Errorf("failed to end upload session", e))
                                /\ UNCHANGED <<phase, reqVars, upVars>>
                           ELSE EnterRequest("end", EndSessionPath(bucketUuid, sid))
    /\ UNCHANGED <<inputVars, cancelAt, keyVars>>

\* client.Do is under way, ctx is not done and the remote end does not
\* answer: a client with a Timeout gives up with a timeout error (an
\* outcome of Attempt), a client without one goes on waiting.
Block ==
    /\ pc \in {"attempt", "upload"}
    /\ ~ctxDone
    /\ ClientTimeout(pc, op) = 0
    /\ pc = "upload" => UploadFilesSends(UploadTarget(urls, idx), files[idx].Content)
    /\ pc' = "blocked"
    /\ UNCHANGED <<inputVars, ctxVars, phase, reqVars, upVars, netLog, uploadCalls,
                   result, keyVars>>

\* The remote end answers after all, or ctx is cancelled: the waiting
\* client.Do is about to return.
Unblock ==
    /\ pc = "blocked"
    /\ pc' = IF phase = "start" /\ idx >= 1 THEN "upload" ELSE "attempt"
    /\ UNCHANGED <<inputVars, ctxVars, phase, reqVars, upVars, netLog, uploadCalls,
                   result, keyVars>>

Next == Call \/ Attempt \/ Cancel \/ Backoff \/ Settle \/ Upload \/ Block \/ Unblock

Spec == Init /\ [][Next]_vars

(* ------------------------------------------------------------------ *)
(* The credential: SetAPIKey, the environment and getAPIKey             *)
(* ------------------------------------------------------------------ *)

\* The process has started and no operation is running: apiKey has the
\* zero value of a Go string and keyLog opens with the value of
\* APILLON_API_KEY in the environment the process was started in.
InitKey ==
    /\ op = "GetReq"
    /\ bucketUuid = ""
    /\ directoryUuid = ""
    /\ files = <<>>
    /\ path = <<"/storage/buckets">>
    /\ ctxDone = FALSE
    /\ cancelledIn = "none"
    /\ cancelAt = -1
    /\ pc = "call"
    /\ phase = "none"
    /\ attempt = 0
    /\ lastErr = NoErr
    /\ bodyReader = NoBody
    /\ reqLog = <<>>
    /\ slept = <<>>
    /\ reqResult = NoResult
    /\ apiResp = ZeroProcessAPIResponse
    /\ urls = <<>>
    /\ idx = 0
    /\ netLog = <<>>
    /\ uploadCalls = <<>>
    /\ result = NoResult
    /\ apiKey = ""
    /\ env \in EnvValues
    /\ keyLog = <<[ev |-> "environ", v |-> env]>>

operationVars ==
    <<op, bucketUuid, directoryUuid, files, ctxDone, cancelledIn, cancelAt, pc, phase,
      path, attempt, lastErr, bodyReader, reqLog, slept, reqResult, apiResp, urls, idx,
      netLog, uploadCalls, result>>

\* Mutant: a key that is set is kept (set once).
AssignAPIKeyOnce(cur, key) == IF cur = "" THEN key ELSE cur

\* apiKey = key (line 40): the value of apiKey after SetAPIKey(key) when
\* it was cur before.
AssignAPIKey(cur, key) == key

\* SetAPIKey(key) (lines 39-41).
SetAPIKey ==
    /\ Len(keyLog) < MaxKeyLog
    /\ \E key \in Keys :
         /\ apiKey' = AssignAPIKey(apiKey, key)
         /\ keyLog' = Append(keyLog, [ev |-> "SetAPIKey", v |-> key])
    /\ UNCHANGED <<env, operationVars>>

\* The environment variable APILLON_API_KEY is set (or, with "", unset).
Setenv ==
    /\ Len(keyLog) < MaxKeyLog
    /\ \E value \in EnvValues :
         /\ env' = value
         /\ keyLog' = Append(keyLog, [ev |-> "Setenv", v |-> value])
    /\ UNCHANGED <<apiKey, operationVars>>

\* getAPIKey() is called (line 84, and the test of the package) and
\* returns.
GetAPIKey ==
    /\ Len(keyLog) < MaxKeyLog
    /\ keyLog' = Append(keyLog, [ev |-> "getAPIKey", v |-> getAPIKey])
    /\ UNCHANGED <<apiKey, env, operationVars>>

NextKey == SetAPIKey \/ Setenv \/ GetAPIKey

SpecKey == InitKey /\ [][NextKey]_vars

(* ------------------------------------------------------------------ *)
(* Properties                                                          *)
(* ------------------------------------------------------------------ *)
IsUpload == op = "UploadFileProcess"
RequestReturned == reqResult # NoResult
LoopEntered == phase # "none" /\ ~buildURLFails(path)
LogIndices == 1..Len(netLog)
PutEntries == SelectSeq(netLog, LAMBDA e : e.what = "put")
StartSucceededAt(p) == netLog[p].what = "start" /\ netLog[p].ok

\* The signed URLs a session-start response body yields: the entries of
\* data.files with a non-empty url.
SignedURLCount(body) ==
    IF body.t = "object" /\ body.data.ty = "object"
    THEN Cardinality({j \in 1..Len(body.data.files) : body.data.files[j].url # EmptyURL})
    ELSE 0

\* A received response is an application error: status >= 400 and a body
\* that is a JSON object whose status, if present, is a number.
DecodableEnvelope(body) == body.t = "object" /\ body.status.ty # "string"
IsApplicationError(o) ==
    o.kind = "response" /\ o.r.readOK /\ o.r.status >= 400 /\ DecodableEnvelope(o.r.body)

AllConnectivityFailures == \A i \in 1..Len(reqLog) : reqLog[i].kind = "conn"

\* C1 (retry bound): doRequest never makes more than 3 attempts, and when it
\* has returned after every attempt ended in a connectivity failure it made
\* exactly 3 attempts and returned the one aggregated error that states the
\* attempt count 3 and wraps the cause of the 3rd attempt.
C1_RetryBound ==
    /\ Len(reqLog) <= maxRetries
    /\ (RequestReturned /\ LoopEntered /\ AllConnectivityFailures) =>
          /\ Len(reqLog) = 3
          /\ reqResult = Ret(NoPayload, ExhaustedErr(3, reqLog[3].err))

\* Three connectivity failures, the last with another cause than the first.
C1_Witness ==
    /\ RequestReturned /\ LoopEntered /\ AllConnectivityFailures
    /\ Len(reqLog) = 3
    /\ reqLog[1].err = ConnRefused
    /\ reqLog[3].err = TimedOut
    /\ reqResult.err.k = "request failed after attempts"

\* C2 (no retry on application error): an attempt that received a response
\* with status >= 400 and a decodable envelope is the last attempt of its
\* doRequest: doRequest has returned an APIError and neither sleeps nor
\* attempts again; on the first attempt, exactly 1 attempt is made.
C2_NoRetryOnApplicationError ==
    \A i \in 1..Len(reqLog) :
        IsApplicationError(reqLog[i]) =>
            /\ i = Len(reqLog)
            /\ pc \notin {"attempt", "backoff"}
            /\ RequestReturned
            /\ reqResult.err.k = "APIError"

\* {status: 404, message: "x"} with HTTP status 404 on the first attempt.
C2_Witness ==
    /\ Len(reqLog) = 1
    /\ IsApplicationError(reqLog[1])
    /\ reqLog[1].r.status = 404
    /\ reqLog[1].r.body = JSONObj(StatusInt(404), MessageStr("x"), DataAbsent)
    /\ reqResult = Ret(NoPayload, APIError(404, "x"))
    /\ Len(netLog) = 1

\* C3 (cancellation preemption), as claimed: once the context is cancelled
\* during the backoff delay, no further attempt is made and doRequest
\* returns a cancellation error, not the retry-exhausted error.
C3_CancellationPreemption ==
    cancelledIn = "backoff" =>
        /\ Len(reqLog) = cancelAt
        /\ RequestReturned => reqResult.err = CtxErr

\* C4 (cancellation is terminal), as claimed: an attempt that failed with
\* the context's cancellation is the last attempt and is followed by no
\* backoff delay.
C4_CancellationTerminal ==
    \A i \in 1..Len(reqLog) :
        reqLog[i].kind = "ctx" =>
            /\ i = Len(reqLog)
            /\ pc # "backoff"
            /\ Len(slept) < i

InvalidInput ==
    \/ bucketUuid = ""
    \/ Len(files) = 0
    \/ \E i \in 1..Len(files) : files[i].FileName = "" \/ files[i].Content = ""

\* C5 (input validation): UploadFileProcess called with an empty bucket id,
\* no files, or a file with an empty name or content has failed with a
\* StorageError of code ErrCodeInvalidInput and has made no network call.
C5_InputValidation ==
    (IsUpload /\ InvalidInput /\ pc # "call") =>
        /\ pc = "failed"
        /\ result.err.k = "StorageError"
        /\ result.err.Code = 40000001
        /\ netLog = <<>>
        /\ uploadCalls = <<>>

\* A valid first file and a second file without content.
C5_Witness ==
    /\ IsUpload /\ pc = "failed"
    /\ bucketUuid = "b1"
    /\ Len(files) = 2
    /\ files[1].FileName # "" /\ files[1].Content # ""
    /\ files[2].FileName # "" /\ files[2].Content = ""
    /\ result.err.k = "StorageError"
    /\ netLog = <<>>

\* C6 (URL-count shortfall): after a session-start response that yields
\* fewer signed URLs than files were given, UploadFileProcess has failed,
\* UploadFiles was never called, and no PUT and no session-end call was made.
C6_URLCountShortfall ==
    \A p \in LogIndices :
        (StartSucceededAt(p) /\ SignedURLCount(netLog[p].resp.body) < Len(files)) =>
            /\ pc = "failed"
            /\ result.err.k = "StorageError"
            /\ uploadCalls = <<>>
            /\ \A q \in LogIndices : netLog[q].what = "start"

\* Three files, a response with two signed URLs.
C6_Witness ==
    /\ pc = "failed"
    /\ Len(files) = 3
    /\ \E p \in LogIndices :
          /\ StartSucceededAt(p)
          /\ SignedURLCount(netLog[p].resp.body) = 2

UploadIndices == 1..Len(uploadCalls)

\* C7 (first failing file halts the upload): UploadFiles is called for the
\* files in input order, once each; a call that failed is the last one, the
\* orchestration has failed, and no call other than the session-start
\* attempts and the PUTs was made: no session-end, no cleanup.  Every file
\* before the failing one was PUT exactly once, the failing one at most once.
C7_FirstFailureHalts ==
    /\ \A k \in UploadIndices : uploadCalls[k].file = k
    /\ \A k \in UploadIndices :
          ~uploadCalls[k].ok =>
              /\ k = Len(uploadCalls)
              /\ pc = "failed"
              /\ result.err.k = "wrapped" /\ result.err.prefix = "failed to upload file"
              /\ \A q \in LogIndices : netLog[q].what \in {"start", "put"}
              /\ Len(PutEntries) \in {k - 1, k}
              /\ \A j \in 1..Len(PutEntries) :
                    /\ PutEntries[j].file = j
                    /\ PutEntries[j].method = "PUT"
                    /\ PutEntries[j].ok = (j < k)

\* Three files, the upload of the 2nd fails after its PUT was sent.
C7_Witness ==
    /\ Len(files) = 3
    /\ Len(uploadCalls) = 2
    /\ uploadCalls[1].ok /\ ~uploadCalls[2].ok
    /\ Len(PutEntries) = 2
    /\ pc = "failed"

StartBodyAt(p) == netLog[p].resp.body
HasData(body) == body.t = "object" /\ body.data.ty = "object"
AllUploaded ==
    /\ Len(uploadCalls) = Len(files)
    /\ \A k \in UploadIndices : uploadCalls[k].ok

\* C8 (happy path): when session-start gave a session id and one signed URL
\* per file and every upload succeeded, the session-end call is made for
\* that session id; and when it succeeds UploadFileProcess returns exactly
\* the body of that response with a nil error.
C8_HappyPath ==
    \A p \in LogIndices :
        (/\ StartSucceededAt(p)
         /\ HasData(StartBodyAt(p))
         /\ StartBodyAt(p).data.sessionUuid # ""
         /\ SignedURLCount(StartBodyAt(p)) = Len(files)
         /\ Len(StartBodyAt(p).data.files) = Len(files)
         /\ AllUploaded) =>
            /\ phase = "end"
            /\ path = <<"/storage/buckets/", bucketUuid, "/upload/",
                        StartBodyAt(p).data.sessionUuid, "/end">>
            /\ \A q \in LogIndices :
                  netLog[q].what = "end" =>
                      /\ netLog[q].path = path
                      /\ netLog[q].method = "POST"
                      /\ netLog[q].ok =>
                            /\ q = Len(netLog)
                            /\ pc = "complete"
                            /\ result = Ret(netLog[q].resp.body, NoErr)

\* Two files, session "s2", both uploads succeed, session-end answers 200.
C8_Witness ==
    /\ pc = "complete"
    /\ Len(files) = 2
    /\ AllUploaded
    /\ Len(netLog) = 4
    /\ StartSucceededAt(1)
    /\ HasData(StartBodyAt(1))
    /\ StartBodyAt(1).data.sessionUuid = "s2"
    /\ Len(StartBodyAt(1).data.files) = 2
    /\ netLog[4].what = "end" /\ netLog[4].ok
    /\ netLog[4].resp.status = 200
    /\ result.err = NoErr
    /\ result.payload = netLog[4].resp.body

\* C9 (strict phase order): a PUT is made only after a session-start attempt
\* has returned successfully, and no session-start attempt follows; the PUT
\* of file 1 directly follows that attempt and the PUT of file i+1 directly
\* follows the successful PUT of file i; a session-end attempt is made only
\* after the PUT of every file has returned success.
C9_PhaseOrder ==
    \A q \in LogIndices :
        /\ netLog[q].what = "put" =>
              /\ q > 1
              /\ \A r \in q..Len(netLog) : netLog[r].what # "start"
              /\ IF netLog[q].file = 1
                 THEN StartSucceededAt(q - 1)
                 ELSE /\ netLog[q - 1].what = "put"
                      /\ netLog[q - 1].file = netLog[q].file - 1
                      /\ netLog[q - 1].ok
        /\ netLog[q].what = "end" =>
              /\ \A i \in 1..Len(files) :
                    \E r \in 1..(q - 1) :
                        netLog[r].what = "put" /\ netLog[r].file = i /\ netLog[r].ok
              /\ \A r \in q..Len(netLog) : netLog[r].what = "end"

\* Start (after one failed attempt), two PUTs, then the session-end call.
C9_Witness ==
    /\ Len(files) = 2
    /\ Len(netLog) = 5
    /\ netLog[1].what = "start" /\ ~netLog[1].ok
    /\ StartSucceededAt(2)
    /\ netLog[3].what = "put" /\ netLog[3].file = 1
    /\ netLog[4].what = "put" /\ netLog[4].file = 2
    /\ netLog[5].what = "end"

\* C10 (response classification): doRequest, having read a response,
\* returns: for status < 400 the raw body and a nil error; for status >= 400
\* and a body that decodes, an APIError with the status and the message of
\* the body (zero values for members the body lacks); for status >= 400 and
\* a body that does not decode, an error with the HTTP status and the body.
C10_Classification ==
    \A i \in 1..Len(reqLog) :
        (reqLog[i].kind = "response" /\ reqLog[i].r.readOK) =>
            LET st == reqLog[i].r.status
                b == reqLog[i].r.body
            IN  /\ st < 400 => reqResult = Ret(b, NoErr)
                /\ (st >= 400 /\ DecodableEnvelope(b)) =>
                      reqResult =
                          Ret(NoPayload,
                              APIError(IF b.status.ty = "number" THEN b.status.v ELSE 0,
                                       IF b.message.ty = "string" THEN b.message.s ELSE ""))
                /\ (st >= 400 /\ ~DecodableEnvelope(b)) =>
                      reqResult = Ret(NoPayload, HTTPErr(st, b))

\* HTTP status 400 with the envelope {status: 40406003, message: "x"}.
C10_Witness ==
    /\ Len(reqLog) > 0
    /\ LET o == reqLog[Len(reqLog)]
       IN  /\ o.kind = "response" /\ o.r.readOK
           /\ o.r.status = 400
           /\ o.r.body = JSONObj(StatusInt(40406003), MessageStr("x"), DataAbsent)
    /\ reqResult = Ret(NoPayload, APIError(40406003, "x"))
\* A received response with status >= 400 whose body json.Unmarshal rejects.
IsUndecodableError(o) ==
    o.kind = "response" /\ o.r.readOK /\ o.r.status >= 400 /\ ~DecodableEnvelope(o.r.body)

\* C11 (non-decodable error is retryable), as claimed: a response with
\* status >= 400 and a body that does not decode is retried: doRequest does
\* not return right after such a response unless it was the 3rd attempt.
C11_UndecodableRetried ==
    \A i \in 1..Len(reqLog) :
        (IsUndecodableError(reqLog[i]) /\ i < maxRetries /\ RequestReturned) =>
            Len(reqLog) > i

\* C11, amended: a response with status >= 400 and a body that does not
\* decode is terminal: the attempt that received it is the last, doRequest
\* returns the error with the HTTP status and the body, and it neither
\* sleeps nor attempts again.
C11_UndecodableTerminal ==
    \A i \in 1..Len(reqLog) :
        IsUndecodableError(reqLog[i]) =>
            /\ i = Len(reqLog)
            /\ pc \notin {"attempt", "backoff"}
            /\ RequestReturned
            /\ reqResult = Ret(NoPayload, HTTPErr(reqLog[i].r.status, reqLog[i].r.body))
            /\ Len(slept) = i - 1

\* HTTP status 500 with a body that is not JSON, on the first attempt.
C11_Witness ==
    /\ Len(reqLog) = 1
    /\ IsUndecodableError(reqLog[1])
    /\ reqLog[1].r.status = 500
    /\ reqLog[1].r.body = RawBody
    /\ reqResult = Ret(NoPayload, HTTPErr(500, RawBody))
    /\ slept = <<>>

\* C12 (backoff placement), as claimed: the n-th delay of a doRequest is
\* n x 1 s, no delay follows the final (3rd) attempt, and a doRequest that
\* exhausted its attempts has slept 1 s and 2 s, 3 base delays in total.
C12_BackoffPlacement ==
    /\ \A n \in 1..Len(slept) : slept[n] = n * retryDelay
    /\ Len(slept) < maxRetries
    /\ (RequestReturned /\ reqResult.err.k = "request failed after attempts") =>
          slept = <<1 * retryDelay, 2 * retryDelay>>

\* The calls of getAPIKey in keyLog, and the value of the latest event of
\* one of the kinds evs before position j (dflt when there is none).
KeyReads == {j \in 1..Len(keyLog) : keyLog[j].ev = "getAPIKey"}
LastBefore(j, evs, dflt) ==
    LET S == {i \in 1..(j - 1) : keyLog[i].ev \in evs}
    IN  IF S = {} THEN dflt
        ELSE keyLog[CHOOSE i \in S : \A k \in S : k <= i].v
KeySetBefore(j) == LastBefore(j, {"SetAPIKey"}, "")
EnvBefore(j) == LastBefore(j, {"environ", "Setenv"}, "")

\* Position i establishes the credential: the first SetAPIKey call with a
\* key that is not empty or the first getAPIKey that read a value.
Establishes(i) ==
    /\ keyLog[i].ev \in {"SetAPIKey", "getAPIKey"} /\ keyLog[i].v # ""
    /\ \A k \in 1..(i - 1) : ~(keyLog[k].ev \in {"SetAPIKey", "getAPIKey"} /\ keyLog[k].v # "")

\* C13 (set-once credential), as claimed: once the credential is
\* established, every later getAPIKey returns the established value,
\* whatever SetAPIKey calls and environment changes came in between.
C13_SetOnce ==
    \A i \in 1..Len(keyLog) : \A j \in KeyReads :
        (i < j /\ Establishes(i)) => keyLog[j].v = keyLog[i].v

\* C13, amended: the credential is not set once: a getAPIKey call returns
\* the key of the latest SetAPIKey call before it when that key is not
\* empty, whatever the environment changes since that call; a later
\* SetAPIKey call replaces the value.
C13_LatestKeyWins ==
    \A i \in 1..Len(keyLog) : \A j \in KeyReads :
        (/\ i < j
         /\ keyLog[i].ev = "SetAPIKey" /\ keyLog[i].v # ""
         /\ \A k \in (i + 1)..(j - 1) : keyLog[k].ev # "SetAPIKey") =>
            keyLog[j].v = keyLog[i].v

\* k1 is set and read back after the environment changed; then k2 is set
\* and read back.
C13_Witness ==
    keyLog = <<[ev |-> "environ", v |-> "e1"],
               [ev |-> "SetAPIKey", v |-> "k1"],
               [ev |-> "Setenv", v |-> "e2"],
               [ev |-> "getAPIKey", v |-> "k1"],
               [ev |-> "SetAPIKey", v |-> "k2"],
               [ev |-> "getAPIKey", v |-> "k2"]>>

\* C14 (credential resolution): getAPIKey returns the key given to the
\* latest SetAPIKey call when that key is not empty, and otherwise the
\* value of APILLON_API_KEY at that time; what it returns is not empty
\* whenever one of the two is not empty.
C14_CredentialResolution ==
    \A j \in KeyReads :
        LET k == KeySetBefore(j)
            e == EnvBefore(j)
        IN  /\ k # "" => keyLog[j].v = k
            /\ k = "" => keyLog[j].v = e
            /\ (k # "" \/ e # "") => keyLog[j].v # ""

\* With the variable set to e1: the key k1 is read back, and after
\* SetAPIKey("") the value of the variable is.
C14_Witness ==
    keyLog = <<[ev |-> "environ", v |-> "e1"],
               [ev |-> "SetAPIKey", v |-> "k1"],
               [ev |-> "getAPIKey", v |-> "k1"],
               [ev |-> "SetAPIKey", v |-> ""],
               [ev |-> "getAPIKey", v |-> "e1"]>>

\* C15 (authentication scope): every client.Do of doRequest, the first
\* attempt and every retry, of the plain requests and of the session start
\* and session end, carries the Authorization header with the credential;
\* no PUT of UploadFiles to a signed URL carries an Authorization header.
C15_AuthenticationScope ==
    \A p \in LogIndices :
        /\ netLog[p].kind = "api" =>
              netLog[p].auth = <<"Basic ", IF apiKey # "" THEN apiKey ELSE env>>
        /\ netLog[p].kind = "signed" => netLog[p].auth = <<>>

\* The session start is retried once, then a file is PUT and the session
\* end is attempted.
C15_Witness ==
    /\ Len(netLog) = 4
    /\ netLog[1].what = "start" /\ ~netLog[1].ok
    /\ netLog[2].what = "start" /\ netLog[2].ok
    /\ netLog[2].auth = <<"Basic ", "k1">>
    /\ netLog[3].what = "put" /\ netLog[3].auth = <<>>
    /\ netLog[4].what = "end" /\ netLog[4].auth = <<"Basic ", "k1">>

\* The response DeleteDirectory's request ended with reports the directory
\* status code: its body is a JSON object whose "status" is the number code.
ServerReported(code) ==
    /\ op = "DeleteDirectory" /\ phase = "delete"
    /\ pc \in {"complete", "failed"}
    /\ Len(reqLog) > 0
    /\ LET o == reqLog[Len(reqLog)]
       IN  /\ o.kind = "response" /\ o.r.readOK
           /\ o.r.body.t = "object"
           /\ o.r.body.status = StatusInt(code)

\* C16 (DeleteDirectory status mapping), as claimed: whenever the server
\* reports 40406003 or 40006007, in the body of a response with status
\* < 400 or in the error envelope of a response with status >= 400,
\* DeleteDirectory returns a failure whose code is that status.
C16_DeleteStatusMapping ==
    \A code \in {ErrCodeDirectoryNotFound, ErrCodeDirectoryDeleting} :
        ServerReported(code) =>
            /\ pc = "failed"
            /\ result.err.k = "StorageError"
            /\ result.err.Code = code

\* The steps the operation takes without waiting for anything but its own
\* timeouts and delays.
OwnStep == Call \/ Attempt \/ Backoff \/ Settle \/ Upload

\* C17 (bounded blocking and termination), as claimed: every network call
\* of UploadFileProcess is bounded by its own timeout, so that, whatever
\* the remote end does and with a ctx that is never done, the operation has
\* reached Complete or Failed or can take a step of its own.
C17_BoundedBlocking ==
    (IsUpload /\ ~ctxDone) => (pc \in {"complete", "failed"} \/ ENABLED OwnStep)

\* UploadFileProcess is in its uploading phase: the session start was
\* accepted and the loop over the files is ahead, under way or over.
InUploadPhase ==
    IsUpload /\ (pc \in {"settle", "upload", "blocked"} \/ uploadCalls # <<>>)

\* C19 (URL-count equality), as claimed: in the uploading phase the number
\* of signed URLs accepted from the session-start response equals the
\* number of files; a response with another number of signed URLs, fewer or
\* more, never leads to an upload.
C19_URLCountEquality ==
    /\ InUploadPhase => Len(urls) = Len(files)
    /\ \A p \in LogIndices :
          (StartSucceededAt(p) /\ SignedURLCount(StartBodyAt(p)) # Len(files)) =>
              ~InUploadPhase

\* C19, amended: in the uploading phase the number of signed URLs accepted
\* is at least the number of files; a response with fewer signed URLs never
\* leads to an upload, one with more is accepted, and of its URLs only the
\* first as many as there are files are PUT to.
C19_URLCountAtLeast ==
    /\ InUploadPhase => Len(urls) >= Len(files)
    /\ \A p \in LogIndices :
          (StartSucceededAt(p) /\ SignedURLCount(StartBodyAt(p)) < Len(files)) =>
              ~InUploadPhase
    /\ \A p \in LogIndices :
          (StartSucceededAt(p) /\ InUploadPhase) =>
              Len(urls) = SignedURLCount(StartBodyAt(p))
    /\ \A k \in 1..Len(PutEntries) :
          \E i \in 1..Len(files) : PutEntries[k].url = urls[i]

\* Two files, a response with three signed URLs: both files are PUT and
\* the session is ended.
C19_Witness ==
    /\ IsUpload /\ pc = "complete"
    /\ Len(files) = 2
    /\ Len(urls) = 3
    /\ AllUploaded
    /\ Len(PutEntries) = 2

\* C20 (slot alignment), as claimed: for every session-start response that
\* passed the count check, entries with an empty url and surplus entries
\* included, the content of the i-th file is PUT to the url of the i-th
\* file entry of the response.
C20_SlotAlignment ==
    \A p \in LogIndices : \A k \in 1..Len(PutEntries) :
        StartSucceededAt(p) =>
            LET e == PutEntries[k]
                entries == StartBodyAt(p).data.files
            IN  /\ e.content = files[e.file].Content
                /\ e.file <= Len(entries)
                /\ e.url = entries[e.file].url

\* The session id of the session-start response at position p of netLog,
\* "" when the response has none.
SessionIdAt(p) ==
    IF HasData(StartBodyAt(p)) THEN StartBodyAt(p).data.sessionUuid ELSE ""

\* C21 (session id before uploads), as claimed: a PUT to a signed URL is
\* issued only after a session-start response with a non-empty session id;
\* a response without one fails the orchestration before any file is
\* uploaded, and the orchestration never fails with all files uploaded and
\* no session-end call made.
C21_SessionIdBeforeUploads ==
    /\ \A p \in LogIndices :
          (StartSucceededAt(p) /\ SessionIdAt(p) = "") =>
              /\ uploadCalls = <<>>
              /\ PutEntries = <<>>
              /\ pc \notin {"settle", "upload", "blocked"}
    /\ (IsUpload /\ pc = "failed" /\ AllUploaded /\ uploadCalls # <<>>) =>
          \E q \in LogIndices : netLog[q].what = "end"

\* C22 (same body on every attempt), as claimed: every attempt of the
\* session-start POST, also one that follows an attempt which failed after
\* part or all of the body had been read, sends the complete original body,
\* the one the first attempt sent, not what was left unread in the reader.
C22_SameBodyOnEveryAttempt ==
    (IsUpload /\ phase = "start") =>
        \A i \in 1..Len(reqLog) :
            /\ reqLog[i].body = StartUploadBody(OnlyMetadata(files))
            /\ reqLog[i].body = reqLog[1].body

====
